---- MODULE Spec2Model ----
(* Model of the WebSocket fan-out of src/main.py: the ConnectionManager       *)
(* (registry + broadcast), the /ws endpoint task of each subscriber and the   *)
(* POST /data write endpoint that schedules a broadcast as background task.   *)
(* Every action is the code that runs between two suspension points (await)   *)
(* of one asyncio task. None of the three `async with self._lock` blocks      *)
(* contains an await, and a free asyncio.Lock is acquired without suspending, *)
(* so a block runs within the step that reaches it.                           *)
EXTENDS Integers, Sequences, FiniteSets, TLC

(* ---------------------------------------------------------------- bounds *)
MaxSubs   == 3      \* WebSocket connections ever opened
MaxWrites == 2      \* POST /data requests ever made
MaxFairSubs == 2    \* connections opened under the fair specification

Subs   == 1..MaxSubs
FairSubs == 1..MaxFairSubs
Writes == 1..MaxWrites

(* Tasks that may own the lock *)
WsTask(s) == <<"ws", s>>
BgTask(w) == <<"bg", w>>
NoTask    == <<"none", 0>>
NoSub     == 0

(* Values of the X-API-Key header / UPLOADER_API_KEY; "None" is Python None *)
Keys    == {"None", "good", "bad"}
Secrets == {"None", "good"}
DbOutcomes == {"ok", "duplicate", "error"}

(* ------------------------------------- values of `created_at` and of time *)
MaxStrLen == 3      \* tokens in a string value of created_at

(* Time is counted in hours since the epoch, which keeps the largest      *)
(* timestamp a datetime can hold within 32-bit integers.                   *)
Epoch2024    == 19723 * 24          \* 2024-01-01T00:00:00+00:00
MinTimestamp == 0 - 719162 * 24     \* 0001-01-01T00:00:00+00:00
MaxTimestamp == 2932897 * 24 - 1    \* last hour of 9999-12-31
Clock        == {Epoch2024 + 24, Epoch2024 + 48}

(* A string is a sequence of tokens: "sp" is white space, "dt" is the     *)
(* text 2024-01-01T00:00:00, "Z", "+00:00" and "+02:00" are themselves    *)
(* and "x" is any other text.                                             *)
Tokens  == {"sp", "dt", "Z", "+00:00", "+02:00", "x"}
Strings == UNION { [1..n -> Tokens] : n \in 0..MaxStrLen }
Numbers == {0, 1, 0 - 1, Epoch2024, MaxTimestamp + 1}

(* A JSON value as Python holds it: its type, its number (the length for  *)
(* a list, 0/1 for a bool) and its text. data.get('created_at') is None   *)
(* for an absent key and for null.                                        *)
Val(t, n, s) == [t |-> t, n |-> n, s |-> s]
None      == Val("None", 0, << >>)
NoPayload == Val("nothing", 0, << >>)
Values ==
    {None} \cup { Val("int", n, << >>) : n \in Numbers }
           \cup { Val("str", 0, s) : s \in Strings }
           \cup { Val("bool", n, << >>) : n \in {0, 1} }
           \cup { Val("list", n, << >>) : n \in {0, 1} }

(* A datetime: its instant and its tzinfo. A naive datetime has no        *)
(* instant of its own; epoch then holds its wall clock read as UTC.       *)
DT(e, tz) == [epoch |-> e, tz |-> tz]
NoTs      == DT(0, "none")

(* What ran last on its own, and what came of it *)
Ops      == {"coerce_ts", "create_upload", "read_sensor_data", "read_latest",
             "test_db", "do_GET"}
NoCall   == [op |-> "none", key |-> "None", v |-> None, db |-> "ok", now |-> 0]
NoResult == [status |-> 0, body |-> {}, raised |-> FALSE, value |-> NoTs,
             stored |-> NoTs, payload |-> NoPayload, committed |-> FALSE,
             scheduled |-> 0]

VARIABLES
    active_connections,  \* ConnectionManager.active_connections (a set)
    lock,                \* owner of ConnectionManager._lock, or NoTask
    application_state,   \* ws.application_state of each WebSocket
    client_state,        \* ws.client_state of each WebSocket
    transport,           \* network side of each connection: open/stalled/closed
    ws_pc,               \* position of each websocket_endpoint task
    bc_pc,               \* position of each write request / its background broadcast
    conns,               \* broadcast: the members of the local list conns (snapshot)
    todo,                \* broadcast: members of conns the for loop has not reached
    cur,                 \* broadcast: the ws whose send_text is awaited, or NoSub
    to_drop,             \* broadcast: the members of the local list to_drop
    secret,              \* SECRET_API_KEY
    status,              \* HTTP status of each write request (0: none yet)
    scheduled,           \* number of background_tasks.add_task calls per request
    committed,           \* conn.commit() has run for the request
    responded,           \* the HTTP response of the request has been sent
    send_calls,          \* history: send_text calls per (pass, subscriber)
    received,            \* history: messages that reached the client per (pass, subscriber)
    send_raised,         \* history: subscribers whose send_text raised, per pass
    added,               \* history: subscribers whose add completed
    remove_calls,        \* history: completed discard calls per subscriber
    late_adds,           \* history: subscribers added while the pass was in flight
    call,                \* the handler or function last run on its own, with its inputs
    result,              \* what that run returned, stored and handed to broadcast
    errors               \* tasks that ended with an unhandled exception

vars == << active_connections, lock, application_state, client_state, transport,
           ws_pc, bc_pc, conns, todo, cur, to_drop, secret, status, scheduled,
           committed, responded, send_calls, received, send_raised, added,
           remove_calls,
           late_adds, call, result, errors >>

wsVars   == << application_state, client_state, transport, ws_pc >>
passVars == << conns, todo, cur, to_drop, send_calls, received, send_raised,
              late_adds >>
httpVars == << secret, status, scheduled, committed, responded, call, result >>

(* ------------------------------------------------------- pure operations *)
(* Variant: the registry is overwritten instead of extended *)
RegistryAdd_Replace(S, ws) == {ws}

(* set.add *)
RegistryAdd(S, ws) == S \cup {ws}

(* Variant: set.remove, which raises KeyError for an absent element *)
RegistryDiscard_Remove(S, ws) == [set |-> S \ {ws}, raised |-> ws \notin S]

(* set.discard: never raises *)
RegistryDiscard(S, ws) == [set |-> S \ {ws}, raised |-> FALSE]

(* list(self.active_connections): a copy holding every member once. The   *)
(* order of a set's elements is arbitrary, so the copy is kept as the set  *)
(* of its members and the for loop takes any member it has not reached.    *)
Snapshot(S) == S

(* Variant: only the application side of the connection is tested *)
IsLive_AppOnly(ws) == application_state[ws] = "CONNECTED"

(* the liveness test of broadcast *)
IsLive(ws) ==
    /\ application_state[ws] = "CONNECTED"
    /\ client_state[ws] = "CONNECTED"

(* for ws in to_drop: self.active_connections.discard(ws) *)
RECURSIVE DiscardAll(_, _)
DiscardAll(S, D) ==
    IF D = {} THEN [set |-> S, raised |-> FALSE]
    ELSE LET ws == CHOOSE x \in D : TRUE
             r  == RegistryDiscard(S, ws)
         IN  IF r.raised THEN r ELSE DiscardAll(r.set, D \ {ws})

(* Variant: a failed pass empties the registry *)
Cleanup_Clear(S, snap, drop) ==
    IF drop = {} THEN [set |-> S, raised |-> FALSE]
    ELSE [set |-> {}, raised |-> FALSE]

(* Variant: the registry is rebuilt from the snapshot *)
Cleanup_Rebuild(S, snap, drop) ==
    IF drop = {} THEN [set |-> S, raised |-> FALSE]
    ELSE [set |-> snap \ drop, raised |-> FALSE]

(* The cleanup of broadcast, `if to_drop:` and the discards: the registry *)
(* S after the pass over the snapshot snap that classified drop as dead.  *)
Cleanup(S, snap, drop) ==
    IF drop = {} THEN [set |-> S, raised |-> FALSE]
    ELSE DiscardAll(S, drop)

InFlight(w) == bc_pc[w] = "send"

TypeOK ==
    /\ active_connections \subseteq Subs
    /\ lock \in {NoTask} \cup {WsTask(s) : s \in Subs} \cup {BgTask(w) : w \in Writes}
    /\ application_state \in [Subs -> {"CONNECTING", "CONNECTED", "DISCONNECTED"}]
    /\ client_state \in [Subs -> {"CONNECTING", "CONNECTED", "DISCONNECTED"}]
    /\ transport \in [Subs -> {"open", "stalled", "closed"}]
    /\ ws_pc \in [Subs -> {"idle", "accept", "recv", "done"}]
    /\ bc_pc \in [Writes -> {"idle", "respond", "start", "send", "done"}]
    /\ conns \in [Writes -> SUBSET Subs]
    /\ todo \in [Writes -> SUBSET Subs]
    /\ to_drop \in [Writes -> SUBSET Subs]
    /\ cur \in [Writes -> Subs \cup {NoSub}]
    /\ secret \in Secrets
    /\ status \in [Writes -> {0, 200, 401, 500}]
    /\ scheduled \in [Writes -> Nat]
    /\ committed \in [Writes -> BOOLEAN]
    /\ responded \in [Writes -> BOOLEAN]
    /\ send_calls \in [Writes -> [Subs -> Nat]]
    /\ received \in [Writes -> [Subs -> Nat]]
    /\ send_raised \in [Writes -> SUBSET Subs]
    /\ added \subseteq Subs
    /\ remove_calls \in [Subs -> Nat]
    /\ late_adds \in [Writes -> SUBSET Subs]
    /\ call.op \in Ops \cup {"none"}
    /\ result.status \in {0, 200, 401, 500}
    /\ errors \subseteq {WsTask(s) : s \in Subs} \cup {BgTask(w) : w \in Writes}

Init ==
    /\ active_connections = {}
    /\ lock = NoTask
    /\ application_state = [s \in Subs |-> "CONNECTING"]
    /\ client_state = [s \in Subs |-> "CONNECTING"]
    /\ transport = [s \in Subs |-> "open"]
    /\ ws_pc = [s \in Subs |-> "idle"]
    /\ bc_pc = [w \in Writes |-> "idle"]
    /\ conns = [w \in Writes |-> {}]
    /\ todo = [w \in Writes |-> {}]
    /\ cur = [w \in Writes |-> NoSub]
    /\ to_drop = [w \in Writes |-> {}]
    /\ secret \in Secrets
    /\ status = [w \in Writes |-> 0]
    /\ scheduled = [w \in Writes |-> 0]
    /\ committed = [w \in Writes |-> FALSE]
    /\ responded = [w \in Writes |-> FALSE]
    /\ send_calls = [w \in Writes |-> [s \in Subs |-> 0]]
    /\ received = [w \in Writes |-> [s \in Subs |-> 0]]
    /\ send_raised = [w \in Writes |-> {}]
    /\ added = {}
    /\ remove_calls = [s \in Subs |-> 0]
    /\ late_adds = [w \in Writes |-> {}]
    /\ call = NoCall
    /\ result = NoResult
    /\ errors = {}

(* ------------------------------------------------ the /ws endpoint task *)
(* Variant: connect takes the lock before it awaits accept *)
WsOpen_LockFirst(s) ==
    /\ ws_pc[s] = "idle"
    /\ lock = NoTask
    /\ lock' = WsTask(s)
    /\ ws_pc' = [ws_pc EXCEPT ![s] = "accept"]
    /\ UNCHANGED << active_connections, application_state, client_state,
                    transport, added, remove_calls, errors >>
    /\ UNCHANGED << bc_pc, passVars, httpVars >>

(* A client opens /ws: websocket_endpoint calls manager.connect, which     *)
(* suspends in websocket.accept().                                         *)
WsOpen(s) ==
    /\ ws_pc[s] = "idle"
    /\ ws_pc' = [ws_pc EXCEPT ![s] = "accept"]
    /\ UNCHANGED << active_connections, lock, application_state, client_state,
                    transport, added, remove_calls, errors >>
    /\ UNCHANGED << bc_pc, passVars, httpVars >>

(* accept() completes the handshake: both states become CONNECTED. connect *)
(* then enters `async with self._lock` (a free asyncio.Lock is acquired     *)
(* without suspending), adds the websocket and releases; the endpoint       *)
(* enters its loop and suspends in receive_text().                          *)
AcceptOk(s) ==
    /\ ws_pc[s] = "accept"
    /\ lock = NoTask
    /\ application_state' = [application_state EXCEPT ![s] = "CONNECTED"]
    /\ client_state' = [client_state EXCEPT ![s] = "CONNECTED"]
    /\ active_connections' = RegistryAdd(active_connections, s)
    /\ lock' = NoTask
    /\ added' = added \cup {s}
    /\ late_adds' = [w \in Writes |->
                        IF InFlight(w) THEN late_adds[w] \cup {s} ELSE late_adds[w]]
    /\ ws_pc' = [ws_pc EXCEPT ![s] = "recv"]
    /\ UNCHANGED << transport, remove_calls, errors >>
    /\ UNCHANGED << bc_pc, conns, todo, cur, to_drop, send_calls, received,
                    send_raised, httpVars >>

(* Variant: connect adds the websocket before accept, so that a failed   *)
(* handshake leaves it in the registry                                    *)
AcceptFail_Added(s) ==
    /\ ws_pc[s] = "accept"
    /\ transport' = [transport EXCEPT ![s] = "closed"]
    /\ ws_pc' = [ws_pc EXCEPT ![s] = "done"]
    /\ errors' = errors \cup {WsTask(s)}
    /\ active_connections' = RegistryAdd(active_connections, s)
    /\ added' = added \cup {s}
    /\ UNCHANGED << lock, application_state, client_state, remove_calls >>
    /\ UNCHANGED << bc_pc, passVars, httpVars >>

(* accept() raises (the client went away during the handshake): the       *)
(* exception leaves connect and websocket_endpoint, nothing is added.     *)
AcceptFail(s) ==
    /\ ws_pc[s] = "accept"
    /\ transport' = [transport EXCEPT ![s] = "closed"]
    /\ ws_pc' = [ws_pc EXCEPT ![s] = "done"]
    /\ errors' = errors \cup {WsTask(s)}
    /\ UNCHANGED << active_connections, lock, application_state, client_state,
                    added, remove_calls >>
    /\ UNCHANGED << bc_pc, passVars, httpVars >>

(* receive_text() returns a text frame: the loop goes round *)
RecvText(s) ==
    /\ ws_pc[s] = "recv"
    /\ transport[s] = "open"
    /\ UNCHANGED vars

(* The client closes the connection (or the network drops it) *)
ClientClose(s) ==
    /\ ws_pc[s] = "recv"
    /\ transport[s] # "closed"
    /\ transport' = [transport EXCEPT ![s] = "closed"]
    /\ UNCHANGED << active_connections, lock, application_state, client_state,
                    ws_pc, added, remove_calls, errors >>
    /\ UNCHANGED << bc_pc, passVars, httpVars >>

(* The client stops reading: its connection stays up, sends never complete *)
ClientStall(s) ==
    /\ ws_pc[s] = "recv"
    /\ transport[s] = "open"
    /\ transport' = [transport EXCEPT ![s] = "stalled"]
    /\ UNCHANGED << active_connections, lock, application_state, client_state,
                    ws_pc, added, remove_calls, errors >>
    /\ UNCHANGED << bc_pc, passVars, httpVars >>

(* receive_text() gets websocket.disconnect: client_state becomes         *)
(* DISCONNECTED, WebSocketDisconnect is raised and caught, and the        *)
(* endpoint calls manager.disconnect: lock, discard, release.             *)
RecvDisconnect(s) ==
    /\ ws_pc[s] = "recv"
    /\ transport[s] = "closed"
    /\ lock = NoTask
    /\ client_state' = [client_state EXCEPT ![s] = "DISCONNECTED"]
    /\ LET r == RegistryDiscard(active_connections, s) IN
        /\ active_connections' = r.set
        /\ errors' = IF r.raised THEN errors \cup {WsTask(s)} ELSE errors
    /\ lock' = NoTask
    /\ remove_calls' = [remove_calls EXCEPT ![s] = @ + 1]
    /\ ws_pc' = [ws_pc EXCEPT ![s] = "done"]
    /\ UNCHANGED << application_state, transport, added >>
    /\ UNCHANGED << bc_pc, passVars, httpVars >>

(* receive_text() raises something that is not WebSocketDisconnect (a     *)
(* binary frame has no "text" key: KeyError). `except WebSocketDisconnect`*)
(* does not catch it: the endpoint ends without calling disconnect and    *)
(* the server closes the connection.                                      *)
RecvError(s) ==
    /\ ws_pc[s] = "recv"
    /\ transport[s] = "open"
    /\ transport' = [transport EXCEPT ![s] = "closed"]
    /\ ws_pc' = [ws_pc EXCEPT ![s] = "done"]
    /\ errors' = errors \cup {WsTask(s)}
    /\ UNCHANGED << active_connections, lock, application_state, client_state,
                    added, remove_calls >>
    /\ UNCHANGED << bc_pc, passVars, httpVars >>

(* ------------------------------------------------- POST /data (create_upload) *)
(* Variant: add_task sits in the finally block and runs on a failed insert too *)
UploadResult_Finally(key, sec, db) ==
    IF key # sec THEN [status |-> 401, committed |-> FALSE, scheduled |-> 0]
    ELSE IF db = "error" THEN [status |-> 500, committed |-> FALSE, scheduled |-> 1]
    ELSE [status |-> 200, committed |-> TRUE, scheduled |-> 1]

(* What create_upload decides for one request: the API-key test, the      *)
(* insert and commit, and the add_task call that follows the commit.      *)
UploadResult(key, sec, db) ==
    IF key # sec THEN [status |-> 401, committed |-> FALSE, scheduled |-> 0]
    ELSE IF db = "error" THEN [status |-> 500, committed |-> FALSE, scheduled |-> 0]
    ELSE [status |-> 200, committed |-> TRUE, scheduled |-> 1]

(* create_upload runs from entry to return/raise without suspending *)
Upload(w, key, db) ==
    /\ bc_pc[w] = "idle"
    /\ LET r == UploadResult(key, secret, db) IN
        /\ status' = [status EXCEPT ![w] = r.status]
        /\ committed' = [committed EXCEPT ![w] = r.committed]
        /\ scheduled' = [scheduled EXCEPT ![w] = @ + r.scheduled]
    /\ bc_pc' = [bc_pc EXCEPT ![w] = "respond"]
    /\ UNCHANGED << active_connections, lock, secret, responded, added,
                    remove_calls, call, result, errors >>
    /\ UNCHANGED << wsVars, passVars >>

(* Where the request goes once its response is out: the background tasks  *)
(* run after the response has been sent ("start": broadcast is to run).   *)
AfterResponse(n) == IF n > 0 THEN "start" ELSE "done"

(* The response is sent; a scheduled background task is then due to run *)
Respond(w) ==
    /\ bc_pc[w] = "respond"
    /\ responded' = [responded EXCEPT ![w] = TRUE]
    /\ bc_pc' = [bc_pc EXCEPT ![w] = AfterResponse(scheduled[w])]
    /\ UNCHANGED << active_connections, lock, secret, status, scheduled,
                    committed, added, remove_calls, call, result, errors >>
    /\ UNCHANGED << wsVars, passVars >>

(* --------------------------------------------- ConnectionManager.broadcast *)
(* The for loop of broadcast from its current position up to its next     *)
(* suspension point. Subscribers that fail the liveness test are appended *)
(* to to_drop without a send; the loop suspends in send_text for the      *)
(* first live one it meets. With none left the loop ends, and `if         *)
(* to_drop:` locks, discards every member of to_drop, releases, and       *)
(* broadcast returns. snap is conns; rest/drop are todo/to_drop as the     *)
(* loop resumes.                                                          *)
LoopOn(w, snap, rest, drop) ==
    \/ \E ws \in rest, skipped \in SUBSET { x \in rest : ~IsLive(x) } :
        /\ IsLive(ws)
        /\ todo' = [todo EXCEPT ![w] = rest \ (skipped \cup {ws})]
        /\ to_drop' = [to_drop EXCEPT ![w] = drop \cup skipped]
        /\ cur' = [cur EXCEPT ![w] = ws]
        /\ send_calls' = [send_calls EXCEPT ![w][ws] = @ + 1]
        /\ bc_pc' = [bc_pc EXCEPT ![w] = "send"]
        /\ UNCHANGED << active_connections, lock, remove_calls, errors >>
    \/ /\ \A x \in rest : ~IsLive(x)
       /\ todo' = [todo EXCEPT ![w] = {}]
       /\ to_drop' = [to_drop EXCEPT ![w] = drop \cup rest]
       /\ cur' = [cur EXCEPT ![w] = NoSub]
       /\ bc_pc' = [bc_pc EXCEPT ![w] = "done"]
       /\ (drop \cup rest # {}) => lock = NoTask
       /\ lock' = lock
       /\ LET c == Cleanup(active_connections, snap, drop \cup rest) IN
            /\ active_connections' = c.set
            /\ errors' = IF c.raised THEN errors \cup {BgTask(w)} ELSE errors
       /\ remove_calls' = [s \in Subs |->
                             IF s \in drop \cup rest THEN remove_calls[s] + 1
                             ELSE remove_calls[s]]
       /\ UNCHANGED send_calls

(* The background task runs broadcast: lock;                              *)
(* conns = list(self.active_connections); release; to_drop = []; then the *)
(* loop up to its first send.                                             *)
BcStart(w) ==
    /\ bc_pc[w] = "start"
    /\ lock = NoTask
    /\ conns' = [conns EXCEPT ![w] = Snapshot(active_connections)]
    /\ LoopOn(w, Snapshot(active_connections), Snapshot(active_connections), {})
    /\ UNCHANGED << received, send_raised, added, late_adds >>
    /\ UNCHANGED << wsVars, httpVars >>

(* send_text returns: the message reached the client; the loop goes on *)
BcSendOk(w) ==
    /\ bc_pc[w] = "send"
    /\ transport[cur[w]] = "open"
    /\ received' = [received EXCEPT ![w][cur[w]] = @ + 1]
    /\ LoopOn(w, conns[w], todo[w], to_drop[w])
    /\ UNCHANGED << conns, send_raised, added, late_adds >>
    /\ UNCHANGED << wsVars, httpVars >>

(* Variant: a failed send is tried again on the same subscriber *)
BcSendRaise_Retry(w) ==
    /\ bc_pc[w] = "send"
    /\ transport[cur[w]] = "closed"
    /\ send_raised' = [send_raised EXCEPT ![w] = @ \cup {cur[w]}]
    /\ send_calls' = [send_calls EXCEPT ![w][cur[w]] = @ + 1]
    /\ UNCHANGED << active_connections, lock, bc_pc, conns, todo, cur, to_drop,
                    received, added, remove_calls, late_adds, errors >>
    /\ UNCHANGED << wsVars, httpVars >>

(* Variant: no try/except around the send: the exception ends broadcast *)
BcSendRaise_Abort(w) ==
    /\ bc_pc[w] = "send"
    /\ transport[cur[w]] = "closed"
    /\ bc_pc' = [bc_pc EXCEPT ![w] = "done"]
    /\ errors' = errors \cup {BgTask(w)}
    /\ send_raised' = [send_raised EXCEPT ![w] = @ \cup {cur[w]}]
    /\ UNCHANGED << active_connections, lock, conns, todo, cur, to_drop,
                    send_calls, received, added, remove_calls, late_adds >>
    /\ UNCHANGED << wsVars, httpVars >>

(* send_text raises on a closed connection: except Exception appends the  *)
(* subscriber to to_drop and the loop goes on.                            *)
BcSendRaise(w) ==
    /\ bc_pc[w] = "send"
    /\ transport[cur[w]] = "closed"
    /\ send_raised' = [send_raised EXCEPT ![w] = @ \cup {cur[w]}]
    /\ LoopOn(w, conns[w], todo[w], to_drop[w] \cup {cur[w]})
    /\ UNCHANGED << conns, received, added, late_adds >>
    /\ UNCHANGED << wsVars, httpVars >>

(* ------------------------------------------------------------------ Next *)
WsStep(s) ==
    \/ WsOpen(s)
    \/ AcceptOk(s)
    \/ AcceptFail(s)
    \/ RecvText(s)
    \/ RecvDisconnect(s)
    \/ RecvError(s)

ClientStep(s) ==
    \/ ClientClose(s)
    \/ ClientStall(s)

BcStep(w) ==
    \/ BcStart(w)
    \/ BcSendOk(w)
    \/ BcSendRaise(w)

Next ==
    \/ \E s \in Subs : WsStep(s)
    \/ \E s \in Subs : ClientStep(s)
    \/ \E w \in Writes, key \in Keys, db \in DbOutcomes : Upload(w, key, db)
    \/ \E w \in Writes : Respond(w)
    \/ \E w \in Writes : BcStep(w)

Spec == Init /\ [][Next]_vars

(* The event loop runs every task that is ready: a pass that can go on    *)
(* does, the response of a handled request is sent, a handshake ends one  *)
(* way or the other, and an endpoint whose connection has closed gets     *)
(* WebSocketDisconnect and runs disconnect. What clients do (open, close, *)
(* stall, send a frame) is under no such obligation.                      *)
Fairness ==
    /\ \A w \in Writes : WF_vars(BcStep(w)) /\ WF_vars(Respond(w))
    /\ \A s \in Subs : WF_vars(AcceptOk(s) \/ AcceptFail(s))
    /\ \A s \in Subs : WF_vars(RecvDisconnect(s))

(* The same steps with fewer connections, for the properties that need   *)
(* the fairness above.                                                    *)
FairNext ==
    \/ \E s \in FairSubs : WsStep(s)
    \/ \E s \in FairSubs : ClientStep(s)
    \/ \E w \in Writes, key \in Keys, db \in DbOutcomes : Upload(w, key, db)
    \/ \E w \in Writes : Respond(w)
    \/ \E w \in Writes : BcStep(w)

FairSpec == Init /\ [][FairNext]_vars /\ Fairness

(* ------------------------------------------------------------- coerce_ts *)
(* Python's truth value of v, as `if not v` tests it *)
Truthy(v) ==
    CASE v.t = "None" -> FALSE
      [] v.t = "str"  -> v.s # << >>
      [] OTHER        -> v.n # 0

RECURSIVE lstrip(_)
lstrip(s) == IF s # << >> /\ Head(s) = "sp" THEN lstrip(Tail(s)) ELSE s

RECURSIVE rstrip(_)
rstrip(s) ==
    IF s # << >> /\ s[Len(s)] = "sp" THEN rstrip(SubSeq(s, 1, Len(s) - 1)) ELSE s

(* str.strip *)
strip(s) == rstrip(lstrip(s))

(* s.endswith("Z") *)
endswith_Z(s) == s # << >> /\ s[Len(s)] = "Z"

(* s[:-1] + "+00:00" *)
replace_Z(s) == Append(SubSeq(s, 1, Len(s) - 1), "+00:00")

Returned(d)  == [raised |-> FALSE, value |-> d]
RaisedError  == [raised |-> TRUE, value |-> NoTs]

(* datetime.fromisoformat: a date-time text, alone (naive) or followed by *)
(* one UTC offset; ValueError for anything else.                          *)
fromisoformat(s) ==
    IF s = << "dt" >> THEN Returned(DT(Epoch2024, "naive"))
    ELSE IF s = << "dt", "+00:00" >> THEN Returned(DT(Epoch2024, "UTC"))
    ELSE IF s = << "dt", "+02:00" >> THEN Returned(DT(Epoch2024 - 2, "+02:00"))
    ELSE RaisedError

(* datetime.fromtimestamp(v, tz=timezone.utc): raises OverflowError or    *)
(* ValueError for a number outside the years 1..9999.                     *)
fromtimestamp(n) ==
    IF n >= MinTimestamp /\ n <= MaxTimestamp THEN Returned(DT(n, "UTC"))
    ELSE RaisedError

(* coerce_ts(v), with now the value datetime.now(timezone.utc) would      *)
(* return. bool is a subclass of int, so isinstance(v, (int, float))      *)
(* holds for it.                                                          *)
coerce_ts(v, now) ==
    IF ~Truthy(v) THEN Returned(DT(now, "UTC"))
    ELSE IF v.t \in {"int", "bool"} THEN fromtimestamp(v.n)
    ELSE IF v.t = "str" THEN
        LET s0 == strip(v.s)
            s  == IF endswith_Z(s0) THEN replace_Z(s0) ELSE s0
            r  == fromisoformat(s)
        IN IF r.raised THEN Returned(DT(now, "UTC")) ELSE r
    ELSE Returned(DT(now, "UTC"))

(* ---------------------------------------------------- the HTTP handlers *)
(* Texts a response body can hold; ErrText is str(e), the text of the     *)
(* exception the handler caught.                                          *)
ErrText == "str(e)"

ReadOutcomes == {"ok", "unconfigured", "error", "other"}

Response(st, body) == [NoResult EXCEPT !.status = st, !.body = body]

(* create_upload as one request sees it: the key test, coerce_ts inside   *)
(* the try (an exception it raises ends in the handler's except, like a   *)
(* failed insert), the insert with ON CONFLICT DO NOTHING, the commit,    *)
(* and payload = json.dumps(data), which holds created_at as it came.     *)
create_upload(key, sec, v, db, now) ==
    LET c == coerce_ts(v, now)
        r == UploadResult(key, sec, IF c.raised THEN "error" ELSE db)
    IN [ status    |-> r.status,
         body      |-> IF r.status = 401 THEN {"Invalid API Key"}
                       ELSE IF r.status = 500 THEN {"Failed to write data."}
                       ELSE {"success"},
         raised    |-> FALSE,
         value     |-> IF key = sec THEN c.value ELSE NoTs,
         stored    |-> IF r.committed /\ db = "ok" THEN c.value ELSE NoTs,
         payload   |-> IF r.scheduled > 0 THEN v ELSE NoPayload,
         committed |-> r.committed,
         scheduled |-> r.scheduled ]

(* GET /sensor_data *)
read_sensor_data(out) ==
    IF out = "ok" THEN Response(200, {"rows"})
    ELSE Response(500, {"Failed to fetch data from the database."})

(* GET /sensor_data/latest *)
read_latest(out) ==
    IF out = "ok" THEN Response(200, {"rows"})
    ELSE Response(500, {"Failed to fetch latest data."})

(* GET /test_db: the except branch returns a dict, which is a 200 *)
test_db(out) ==
    IF out = "ok" THEN Response(200, {"connected"})
    ELSE Response(200, {"error", ErrText})

(* handler.do_GET of api/get_from_neon.py *)
do_GET(out) ==
    CASE out = "ok" -> Response(200, {"rows"})
      [] out = "unconfigured" ->
            Response(500, {"DATABASE_URL environment variable not set."})
      [] out = "error" ->
            Response(500, {"A database error occurred.",
                           "Check Vercel logs for specific DB error."})
      [] OTHER ->
            Response(500, {"An unexpected server error occurred.", ErrText})

(* --------------------------- one handler or function at a time, observed *)
coreVars == << active_connections, lock, wsVars, bc_pc, passVars, secret,
               status, scheduled, committed, responded, added, remove_calls,
               errors >>

Called(op, key, v, db, now) ==
    [op |-> op, key |-> key, v |-> v, db |-> db, now |-> now]

CallCoerceTs(v, now) ==
    /\ call = NoCall
    /\ call' = Called("coerce_ts", "None", v, "ok", now)
    /\ result' = [NoResult EXCEPT !.raised = coerce_ts(v, now).raised,
                                  !.value = coerce_ts(v, now).value]
    /\ UNCHANGED coreVars

CallCreateUpload(key, v, db, now) ==
    /\ call = NoCall
    /\ call' = Called("create_upload", key, v, db, now)
    /\ result' = create_upload(key, secret, v, db, now)
    /\ UNCHANGED coreVars

CallReadSensorData(out) ==
    /\ call = NoCall
    /\ call' = Called("read_sensor_data", "None", None, out, 0)
    /\ result' = read_sensor_data(out)
    /\ UNCHANGED coreVars

CallReadLatest(out) ==
    /\ call = NoCall
    /\ call' = Called("read_latest", "None", None, out, 0)
    /\ result' = read_latest(out)
    /\ UNCHANGED coreVars

CallTestDb(out) ==
    /\ call = NoCall
    /\ call' = Called("test_db", "None", None, out, 0)
    /\ result' = test_db(out)
    /\ UNCHANGED coreVars

CallDoGet(out) ==
    /\ call = NoCall
    /\ call' = Called("do_GET", "None", None, out, 0)
    /\ result' = do_GET(out)
    /\ UNCHANGED coreVars

(* The observed call is over; the next one can be made *)
CallReturn ==
    /\ call # NoCall
    /\ call' = NoCall
    /\ result' = NoResult
    /\ UNCHANGED coreVars

CallNext ==
    \/ \E v \in Values, now \in Clock : CallCoerceTs(v, now)
    \/ \E key \in Keys, v \in Values, db \in DbOutcomes, now \in Clock :
          CallCreateUpload(key, v, db, now)
    \/ \E out \in ReadOutcomes : CallReadSensorData(out)
    \/ \E out \in ReadOutcomes : CallReadLatest(out)
    \/ \E out \in ReadOutcomes : CallTestDb(out)
    \/ \E out \in ReadOutcomes : CallDoGet(out)
    \/ CallReturn

CallSpec == Init /\ [][CallNext]_vars

(* ================================================================ claims *)
(* Subscribers to which pass w attempted a send that raised *)
Raised(w) == send_raised[w]

(* Subscribers on which a discard has completed *)
Removed == { s \in Subs : remove_calls[s] > 0 }

(* C1: broadcast calls send_text at most once per subscriber and only for *)
(* members of the snapshot taken at its start; when it has returned,      *)
(* every member of the snapshot has had its turn: it received the message *)
(* once if it was live at its turn and the send succeeded, and nothing if *)
(* the send raised or it was not live (then it is classified dead); a     *)
(* subscriber outside the snapshot received nothing.                      *)
C1_DeliveredOnce ==
    \A w \in Writes, s \in Subs :
        /\ send_calls[w][s] <= 1
        /\ received[w][s] <= send_calls[w][s]
        /\ s \notin conns[w] => send_calls[w][s] = 0 /\ received[w][s] = 0
        /\ (bc_pc[w] = "done" /\ s \in conns[w]) =>
              \/ send_calls[w][s] = 1 /\ s \notin Raised(w) /\ received[w][s] = 1
              \/ send_calls[w][s] = 1 /\ s \in Raised(w) /\ received[w][s] = 0
              \/ send_calls[w][s] = 0 /\ s \in to_drop[w] /\ received[w][s] = 0

(* A returned pass that delivered to one subscriber, dropped another after *)
(* a failed send, while a third was added after its snapshot.              *)
C1_Witness ==
    \E w \in Writes :
        /\ bc_pc[w] = "done"
        /\ \E s \in conns[w] : received[w][s] = 1
        /\ Raised(w) # {}
        /\ \E d \in late_adds[w] : d \in active_connections /\ received[w][d] = 0

(* C2: when broadcast has returned, every subscriber whose send raised is *)
(* out of the registry and did not receive the message, and every other   *)
(* member of the snapshot received it unless it was itself classified     *)
(* dead.                                                                  *)
C2_FailureIsolated ==
    \A w \in Writes :
        bc_pc[w] = "done" =>
            \A x \in Raised(w) :
                /\ x \notin active_connections
                /\ received[w][x] = 0
                /\ \A y \in conns[w] \ {x} :
                      y \in Raised(w) \/ y \in to_drop[w] \/ received[w][y] = 1

(* Registry {A,B,C}, B raises on send: A and C received, registry {A,C} *)
C2_Witness ==
    \E w \in Writes :
        /\ bc_pc[w] = "done"
        /\ conns[w] = Subs
        /\ Cardinality(Raised(w)) = 1
        /\ to_drop[w] = Raised(w)
        /\ active_connections = conns[w] \ to_drop[w]
        /\ \A y \in conns[w] \ to_drop[w] : received[w][y] = 1

(* C3: in every state the registry holds exactly the subscribers whose    *)
(* add has completed and on which no discard has completed.               *)
C3_AddedMinusRemoved == active_connections = added \ Removed

(* Two subscribers added, one of them removed again, the other still in *)
C3_Witness ==
    \E s, t \in Subs :
        /\ s # t
        /\ s \in active_connections
        /\ t \in added /\ t \in Removed

(* C4: a subscriber whose send never completes does not keep the message *)
(* from the other live subscribers of the snapshot: no pass is ever       *)
(* suspended in a send to a stalled subscriber while a live subscriber    *)
(* with an open connection still waits for its turn behind it.            *)
C4_NoBlockedDelivery ==
    \A w \in Writes :
        ~ /\ bc_pc[w] = "send"
          /\ transport[cur[w]] = "stalled"
          /\ \E y \in todo[w] : IsLive(y) /\ transport[y] = "open"

(* C5: a subscriber added while a pass is in flight is outside that      *)
(* pass's snapshot and receives nothing from it; the step that ends the  *)
(* pass (cleanup included) leaves it in the registry; and a pass that     *)
(* starts takes the whole registry of that moment as its snapshot.        *)
C5_LateAddKept ==
    [][ \A w \in Writes :
          /\ \A d \in late_adds[w] :
                d \notin conns[w] /\ received[w][d] = 0 /\ received'[w][d] = 0
          /\ (bc_pc[w] # "done" /\ bc_pc'[w] = "done") =>
                \A d \in late_adds[w] :
                    d \in active_connections => d \in active_connections'
          /\ (bc_pc[w] = "start" /\ bc_pc'[w] # "start") =>
                conns'[w] = active_connections ]_vars

(* A pass over a non-empty snapshot has returned after a cleanup; D, added *)
(* while it was in flight, got nothing from it, is in the registry and in  *)
(* the snapshot of another pass.                                           *)
C5_Witness ==
    \E w, v \in Writes, d \in Subs :
        /\ w # v
        /\ bc_pc[w] = "done"
        /\ conns[w] # {}
        /\ to_drop[w] # {}
        /\ d \in late_adds[w]
        /\ received[w][d] = 0
        /\ d \in active_connections
        /\ d \in conns[v]

(* C6: no task that is suspended on a network operation (accept,         *)
(* receive_text, send_text, sending the HTTP response) holds the registry *)
(* lock.                                                                  *)
C6_NoLockAcrossAwait ==
    /\ \A s \in Subs : ws_pc[s] \in {"accept", "recv"} => lock # WsTask(s)
    /\ \A w \in Writes : bc_pc[w] \in {"respond", "send"} => lock # BgTask(w)

(* One task in accept, one in receive_text after its add, and a pass in  *)
(* send_text to the latter after its snapshot.                            *)
C6_Witness ==
    \E s, t \in Subs, w \in Writes :
        /\ ws_pc[t] = "accept"
        /\ ws_pc[s] = "recv"
        /\ bc_pc[w] = "send"
        /\ cur[w] = s

(* C7: a subscriber that has reached CLOSED has been removed: whenever   *)
(* its connection is closed, its endpoint task has ended and no broadcast *)
(* is due or in flight, it is not in the registry.                        *)
C7_ClosedIsRemoved ==
    \A s \in Subs :
        ( /\ transport[s] = "closed"
          /\ ws_pc[s] = "done"
          /\ \A w \in Writes : bc_pc[w] \in {"idle", "done"} )
        => s \notin active_connections

(* C8: every subscriber that is, or ever was, in the registry has        *)
(* completed accept (its application_state is CONNECTED); one whose       *)
(* accept failed is never added.                                          *)
C8_AddedOnlyAfterAccept ==
    \A s \in Subs :
        (s \in active_connections \/ s \in added) => application_state[s] = "CONNECTED"

(* One subscriber in the registry, another whose accept failed and is not *)
C8_Witness ==
    \E s, t \in Subs :
        /\ s \in active_connections
        /\ ws_pc[t] = "done"
        /\ application_state[t] = "CONNECTING"
        /\ t \notin active_connections

(* C9: a step that discards subscribers leaves the registry without them *)
(* and raises nothing; when none of them was in the registry (a second    *)
(* removal included) the registry is unchanged.                           *)
C9_DiscardIdempotent ==
    [][ LET R == { s \in Subs : remove_calls'[s] # remove_calls[s] } IN
          R # {} =>
            /\ active_connections' = active_connections \ R
            /\ errors' = errors
            /\ (R \cap active_connections = {}) =>
                  active_connections' = active_connections ]_vars

(* A subscriber removed twice: by a cleanup and by its own disconnect *)
C9_Witness == \E s \in Subs : remove_calls[s] = 2 /\ s \notin active_connections

(* C10: a broadcast is due or running only for a request whose insert was *)
(* committed and whose response has been sent; a request that was handled *)
(* has scheduled one broadcast if it succeeded and none if it failed or   *)
(* was rejected, and then no send is ever made for it.                    *)
C10_BroadcastAfterCommit ==
    \A w \in Writes :
        /\ bc_pc[w] \in {"start", "send"} =>
              committed[w] /\ responded[w] /\ status[w] = 200
        /\ bc_pc[w] # "idle" => scheduled[w] = (IF status[w] = 200 THEN 1 ELSE 0)
        /\ status[w] = 200 => committed[w]
        /\ status[w] # 200 => conns[w] = {} /\ \A s \in Subs : send_calls[w][s] = 0

(* A successful write whose broadcast is sending after the response, and *)
(* a failed write that ended without a broadcast.                         *)
C10_Witness ==
    \E w, v \in Writes :
        /\ status[w] = 200 /\ responded[w] /\ bc_pc[w] = "send"
        /\ status[v] = 500 /\ bc_pc[v] = "done" /\ scheduled[v] = 0

(* A step of the broadcast pass of write w: the pass moves on to another  *)
(* subscriber or returns.                                                 *)
PassStep(w) ==
    /\ bc_pc[w] \in {"start", "send"}
    /\ << bc_pc[w], cur[w] >>' # << bc_pc[w], cur[w] >>

(* C11: whatever a send attempt does (returns, raises, or is not made on  *)
(* a subscriber that is not live), the pass goes on or returns without an *)
(* exception leaving broadcast, the write that triggered it keeps its     *)
(* success response, and the registry changes only by losing, when the    *)
(* pass returns, the subscribers the pass put in to_drop, each of them    *)
(* one whose send raised or that was not live at its turn.                *)
C11_ErrorsContained ==
    [][ \A w \in Writes :
          PassStep(w) =>
            /\ bc_pc'[w] \in {"send", "done"}
            /\ errors' = errors
            /\ BgTask(w) \notin errors'
            /\ status' = status /\ status'[w] = 200
            /\ responded' = responded /\ responded'[w]
            /\ committed' = committed
            /\ to_drop'[w] \ to_drop[w] \subseteq
                  send_raised'[w] \cup { x \in Subs : ~IsLive(x) }
            /\ active_connections' =
                  active_connections \
                    (IF bc_pc'[w] = "done" THEN to_drop'[w] ELSE {}) ]_vars

(* A pass that has returned after one send succeeded, one raised and one  *)
(* subscriber was skipped as not live; the write still reports success.   *)
C11_Witness ==
    \E w \in Writes :
        /\ bc_pc[w] = "done" /\ status[w] = 200 /\ BgTask(w) \notin errors
        /\ \E s \in Subs : received[w][s] = 1
        /\ send_raised[w] # {}
        /\ to_drop[w] \ send_raised[w] # {}
        /\ active_connections \cap to_drop[w] = {}

(* C12: a write request whose API-key header is absent, or differs from   *)
(* the configured secret, gets 401 whatever the configuration is (the     *)
(* secret may be unset), and then inserts nothing and schedules nothing.  *)
C12_RejectsBadKey ==
    (call.op = "create_upload" /\ (call.key = "None" \/ call.key # secret)) =>
        /\ result.status = 401
        /\ ~result.committed
        /\ result.stored = NoTs
        /\ result.scheduled = 0

(* The instant a value of created_at denotes to a reader of the message:  *)
(* a number is epoch time, a text is read as ISO 8601 (Z being +00:00),   *)
(* anything else (null, a flag, a list, other text) denotes none.         *)
NoInstant == MinTimestamp - 1
PayloadInstant(v) ==
    IF v.t = "int" THEN v.n
    ELSE IF v.t = "str" THEN
        LET s0 == strip(v.s)
            r  == fromisoformat(IF endswith_Z(s0) THEN replace_Z(s0) ELSE s0)
        IN IF r.raised THEN NoInstant ELSE r.value.epoch
    ELSE NoInstant

(* C13: when a write is stored and broadcast, the timestamp the message   *)
(* carries denotes the instant of the stored, coerced timestamp; for a    *)
(* missing or unreadable created_at that is the current time the handler  *)
(* used for the row.                                                      *)
C13_BroadcastSameInstant ==
    (/\ call.op = "create_upload" /\ call.key = "good"
     /\ result.scheduled > 0 /\ result.stored # NoTs) =>
        PayloadInstant(result.payload) = result.stored.epoch

(* What the claim says coerce_ts returns: a number (0 included) is epoch  *)
(* time in UTC, a readable ISO text is its datetime, and everything else  *)
(* (None, empty or malformed text, a number out of range, another type)   *)
(* is the current time.                                                   *)
ClaimedTs(v, now) ==
    IF v.t = "int" /\ ~fromtimestamp(v.n).raised THEN DT(v.n, "UTC")
    ELSE IF v.t = "str" /\ PayloadInstant(v) # NoInstant THEN
        fromisoformat(IF endswith_Z(strip(v.s)) THEN replace_Z(strip(v.s))
                      ELSE strip(v.s)).value
    ELSE DT(now, "UTC")

(* C14: coerce_ts returns a timestamp for every input and never raises,   *)
(* and the timestamp is the one described above (a bool, which Python     *)
(* counts as a number, is left open).                                     *)
C14_CoerceTotal ==
    call.op = "coerce_ts" =>
        /\ ~result.raised
        /\ call.v.t # "bool" => result.value = ClaimedTs(call.v, call.now)

(* The call failed in persistence or with another exception *)
CallFailed ==
    \/ call.op \in {"read_sensor_data", "read_latest", "test_db", "do_GET"}
          /\ call.db # "ok"
    \/ call.op = "create_upload" /\ call.key = secret /\ call.db = "error"

(* C15: a failed read or write is answered with a 5xx status, and no      *)
(* response body holds the text of the exception.                         *)
C15_GenericErrors ==
    /\ CallFailed => result.status >= 500
    /\ ErrText \notin result.body

(* Both sides of the connection of x are in CONNECTED state *)
BothConnected(x) ==
    application_state[x] = "CONNECTED" /\ client_state[x] = "CONNECTED"

(* The subscribers whose turn comes in this step of the pass of w *)
TurnsTaken(w) ==
    (IF bc_pc[w] = "start" THEN active_connections ELSE todo[w]) \ todo'[w]

(* C16: a send is started only on a subscriber that passes the liveness   *)
(* test at its turn; a snapshot member that fails it at its turn gets no  *)
(* send for this pass, is put in to_drop, and is out of the registry when *)
(* the pass returns.                                                      *)
C16_NotLiveSkipped ==
    [][ \A w \in Writes :
          PassStep(w) =>
            /\ \A x \in Subs :
                  send_calls'[w][x] > send_calls[w][x] =>
                      x \in TurnsTaken(w) /\ BothConnected(x)
            /\ \A x \in TurnsTaken(w) :
                  ~BothConnected(x) =>
                      /\ send_calls'[w][x] = 0
                      /\ x \in to_drop'[w]
                      /\ x \notin send_raised'[w]
            /\ bc_pc'[w] = "done" =>
                  to_drop'[w] \cap active_connections' = {} ]_vars

(* A pass returned after skipping a snapshot member whose client side had *)
(* disconnected: no send was made on it and it is out of the registry.    *)
C16_Witness ==
    \E w \in Writes, x \in Subs :
        /\ bc_pc[w] = "done" /\ x \in conns[w]
        /\ send_calls[w][x] = 0 /\ received[w][x] = 0
        /\ x \in to_drop[w] \ send_raised[w]
        /\ client_state[x] = "DISCONNECTED"
        /\ x \notin active_connections

(* C17: a subscriber that was explicitly removed (its discard completed)  *)
(* is not in the registry, and is never a member again; and no step       *)
(* starts or ends with a task inside a membership critical section, so    *)
(* at most one task is ever inside one.                                   *)
C17_RemovedStaysOut ==
    [][ /\ \A s \in Subs :
              /\ remove_calls'[s] > remove_calls[s] => s \notin active_connections'
              /\ remove_calls[s] > 0 =>
                    /\ remove_calls'[s] > 0
                    /\ s \notin active_connections
                    /\ s \notin active_connections'
        /\ lock = NoTask /\ lock' = NoTask ]_vars

(* A subscriber that got a message of a pass, then disconnected and was   *)
(* removed, is out of the registry once that pass has returned, while     *)
(* another subscriber is a member.                                        *)
C17_Witness ==
    \E s, u \in Subs, w \in Writes :
        /\ remove_calls[s] > 0 /\ s \notin active_connections
        /\ u \in active_connections
        /\ bc_pc[w] = "done" /\ received[w][s] = 1 /\ to_drop[w] # {}

(* The endpoint task of s caught WebSocketDisconnect and its call of      *)
(* manager.disconnect has returned.                                       *)
Disconnected(s) == ws_pc[s] = "done" /\ client_state[s] = "DISCONNECTED"

(* C18, as stated: when the disconnect of a subscriber completes while a  *)
(* pass whose snapshot holds it is in flight, the subscriber has not got  *)
(* the message of that pass (it is skipped as already removed, or its     *)
(* send fails); neither call raises, and the subscriber is out of the     *)
(* registry.                                                              *)
C18_RaceNotDelivered ==
    \A w \in Writes, s \in Subs :
        (bc_pc[w] \in {"send", "done"} /\ s \in conns[w] /\ Disconnected(s)) =>
            /\ WsTask(s) \notin errors /\ BgTask(w) \notin errors
            /\ s \notin active_connections
            /\ bc_pc[w] = "send" => received[w][s] = 0

(* C18, amended: a disconnect that comes during or after a pass whose     *)
(* snapshot holds the subscriber leaves one of three outcomes: no send    *)
(* was made (skipped, or its turn is yet to come), the send was made and  *)
(* raised (or is still pending), or the message was delivered before the  *)
(* connection closed. Neither call raises, the subscriber is out of the   *)
(* registry, and a pass that has returned and did not deliver to it has   *)
(* it in to_drop.                                                         *)
C18_RaceOutcomes ==
    \A w \in Writes, s \in Subs :
        (bc_pc[w] \in {"send", "done"} /\ s \in conns[w] /\ Disconnected(s)) =>
            /\ WsTask(s) \notin errors /\ BgTask(w) \notin errors
            /\ s \notin active_connections
            /\ \/ /\ send_calls[w][s] = 0 /\ received[w][s] = 0
                  /\ s \notin send_raised[w]
                  /\ s \in to_drop[w] \cup todo[w]
               \/ /\ send_calls[w][s] = 1 /\ received[w][s] = 0
                  /\ \/ s \in send_raised[w] /\ s \in to_drop[w]
                     \/ bc_pc[w] = "send" /\ cur[w] = s
               \/ /\ send_calls[w][s] = 1 /\ received[w][s] = 1
                  /\ s \notin send_raised[w] /\ s \notin to_drop[w]
            /\ bc_pc[w] = "done" => (received[w][s] = 0 <=> s \in to_drop[w])

(* One pass has returned with both accepted outcomes in it: a subscriber  *)
(* it skipped because the disconnect had already removed it, and one      *)
(* whose send raised and whose disconnect followed.                       *)
C18_Witness ==
    \E w \in Writes, s, u \in Subs :
        /\ bc_pc[w] = "done" /\ {s, u} \subseteq conns[w]
        /\ Disconnected(s) /\ Disconnected(u)
        /\ send_calls[w][s] = 0 /\ s \in to_drop[w]
        /\ u \in send_raised[w] /\ u \in to_drop[w]
        /\ remove_calls[s] = 2 /\ remove_calls[u] = 2
        /\ active_connections \cap {s, u} = {}

(* Subscribers removed by something other than the passes w and v: by    *)
(* their own disconnect or by the cleanup of another pass.                *)
RemovedElsewhere(w, v) ==
    { s \in Subs : Disconnected(s) }
        \cup UNION { to_drop[x] : x \in { y \in Writes \ {w, v} : bc_pc[y] = "done" } }

(* C19: once two passes have both returned, every subscriber that was in  *)
(* both snapshots and that neither pass classified dead got each of the   *)
(* two messages exactly once; and of the members of the two snapshots,    *)
(* the registry holds those that neither pass classified dead (and that   *)
(* nothing else, their own disconnect or another pass, has removed).      *)
C19_TwoPasses ==
    \A w, v \in Writes :
        (w # v /\ bc_pc[w] = "done" /\ bc_pc[v] = "done") =>
            /\ \A s \in (conns[w] \cap conns[v]) \ (to_drop[w] \cup to_drop[v]) :
                  /\ send_calls[w][s] = 1 /\ received[w][s] = 1
                  /\ send_calls[v][s] = 1 /\ received[v][s] = 1
            /\ active_connections \cap (conns[w] \cup conns[v]) =
                  (conns[w] \cup conns[v])
                     \ (to_drop[w] \cup to_drop[v] \cup RemovedElsewhere(w, v))

(* Two passes that overlapped (each classified dead a subscriber that was *)
(* in the other's snapshot, so each took its snapshot before the other's  *)
(* cleanup) have returned; a subscriber of both snapshots got both        *)
(* messages and is still a member.                                        *)
C19_Witness ==
    \E w, v \in Writes, s, x \in Subs :
        /\ w # v /\ bc_pc[w] = "done" /\ bc_pc[v] = "done"
        /\ s \in to_drop[w] \cap to_drop[v]
        /\ x \in conns[w] \cap conns[v]
        /\ received[w][x] = 1 /\ received[v][x] = 1
        /\ x \in active_connections /\ s \notin active_connections

(* C20: a step of a pass never adds a member to the registry and removes  *)
(* only subscribers that this pass has in its own to_drop, and only when  *)
(* it returns; a subscriber the pass delivered to, or one that is not in  *)
(* its snapshot, is a member after the step exactly if it was before.     *)
C20_PublishFrame ==
    [][ \A w \in Writes :
          PassStep(w) =>
            /\ active_connections' \subseteq active_connections
            /\ added' = added
            /\ active_connections \ active_connections' \subseteq to_drop'[w]
            /\ bc_pc'[w] # "done" => active_connections' = active_connections
            /\ \A s \in Subs :
                  (received'[w][s] > 0 \/ s \notin conns'[w]) =>
                      (s \in active_connections' <=> s \in active_connections) ]_vars

(* A pass has returned and removed a subscriber it classified dead, while *)
(* one it delivered to and one that joined after its snapshot are members *)
C20_Witness ==
    \E w \in Writes, d, s, u \in Subs :
        /\ bc_pc[w] = "done"
        /\ d \in to_drop[w] /\ d \notin active_connections
        /\ received[w][s] = 1 /\ s \in active_connections
        /\ u \notin conns[w] /\ u \in active_connections

(* The send of pass w is awaited on a connection that takes no data: it   *)
(* neither returns nor raises while this lasts.                           *)
SendStuck(w) == bc_pc[w] = "send" /\ transport[cur[w]] = "stalled"

(* C21: provided no send stays pending for ever, every broadcast that is  *)
(* due runs to its return; and every task at a point where it takes the   *)
(* registry lock (connect after the handshake, disconnect after the       *)
(* connection closed, broadcast at its snapshot and at its cleanup) gets  *)
(* past it, the lock being free again after every step.                   *)
C21_Terminates ==
    /\ \A w \in Writes :
          ~<>[]SendStuck(w) => ((bc_pc[w] = "start") ~> (bc_pc[w] = "done"))
    /\ \A s \in Subs :
          (ws_pc[s] = "accept") ~> (ws_pc[s] \in {"recv", "done"})
    /\ \A s \in Subs :
          (ws_pc[s] = "recv" /\ transport[s] = "closed")
              ~> (ws_pc[s] = "done" /\ s \notin active_connections)
    /\ [](lock = NoTask)

(* Two passes that overlapped have both returned, a send having raised in *)
(* one of them, and every endpoint task has ended with the lock free.     *)
C21_Witness ==
    /\ \A w \in Writes : bc_pc[w] = "done" /\ conns[w] # {}
    /\ \E w \in Writes : send_raised[w] # {}
    /\ \E s \in FairSubs : \A w \in Writes : s \in to_drop[w]
    /\ \A s \in FairSubs : ws_pc[s] = "done"
    /\ lock = NoTask

====
